---- MODULE Spec2Model ----
(***************************************************************************)
(* State-machine model of ApiIntegrationPlugin                             *)
(* (src/plugins/python/ApiIntegrationPlugin/api_integration_plugin.py).    *)
(*                                                                         *)
(* Conventions:                                                            *)
(*   - a Python dict is a TLA+ function whose DOMAIN is the set of keys    *)
(*     present; d.get(k) is Get(d, k), d.get(k, x) is GetD(d, k, x);       *)
(*   - a value that may be None is an option: <<>> is None, <<v>> is v;    *)
(*   - str(error) is a record [msg, status, expected, tag] holding the     *)
(*     message template and the values interpolated into it;               *)
(*   - one invocation of execute_async is a coroutine i \in Invocations;   *)
(*     `running` is the coroutine (or batch task) that holds the event     *)
(*     loop between two suspension points (asyncio is cooperative).        *)
(***************************************************************************)
EXTENDS Naturals, Sequences, FiniteSets, TLC

\* Largest number of endpoints in a batch_requests operation.
MaxBatch == 2

\* Coroutine slots for invocations of execute_async on the one plugin instance.
Invocations == {"inv1", "inv2"}

---------------------------------------------------------------------------
(* Python values *)

None == <<>>
Some(v) == <<v>>
Get(d, k) == IF k \in DOMAIN d THEN <<d[k]>> ELSE None
GetD(d, k, default) == IF k \in DOMAIN d THEN d[k] ELSE default
EmptyDict == <<>>

\* str(error): the message template and what is interpolated into it.
Text(msg, status, expected, tag) ==
    [msg |-> msg, status |-> status, expected |-> expected, tag |-> tag]
Msg(msg) == Text(msg, 0, <<>>, "")
Error(exc, text) == [exc |-> exc, text |-> text]
NoError == Error("", Msg(""))

\* The outcome of a call that either returns a value or raises.
Return(v) == [raised |-> FALSE, error |-> NoError, value |-> <<v>>]
Raise(e) == [raised |-> TRUE, error |-> e, value |-> <<>>]

---------------------------------------------------------------------------
(* The HTTP transport (httpx.AsyncClient), seen from the plugin *)

ContentType(ct) == "content-type" :> ct
SecurityHeaders3 ==
    ("x-frame-options" :> "DENY") @@ ("x-content-type-options" :> "nosniff")
        @@ ("strict-transport-security" :> "max-age=1")
SecurityHeaders1 == "x-frame-options" :> "DENY"

\* Response bodies are byte sequences: "{}", "{" and "hi", and two raw bytes.
BodyEmptyObject == <<123, 125>>
BodyBrokenJson == <<123>>
BodyText == <<104, 105>>
BodyBytes == <<137, 80>>

Response(status, headers, content, elapsed) ==
    [status |-> status, headers |-> headers, content |-> content, elapsed |-> elapsed]

\* What a stub server answers: status, declared content type, body, latency (ms).
Responses ==
    { Response(200, ContentType("application/json") @@ SecurityHeaders3, BodyEmptyObject, 120),
      Response(200, ContentType("application/json"), BodyBrokenJson, 120),
      Response(201, ContentType("image/png") @@ SecurityHeaders1, BodyBytes, 120),
      Response(404, ContentType("text/plain"), BodyText, 1500) }

NoResponse == Response(0, EmptyDict, <<>>, 0)

\* A transport call ends in a response or in an exception raised by the client.
Received(r) == [raised |-> FALSE, error |-> NoError, response |-> r]
Failed(e) == [raised |-> TRUE, error |-> e, response |-> NoResponse]

ConnectError == Error("ConnectError", Msg("All connection attempts failed"))
InvalidURL == Error("UnsupportedProtocol", Msg("Request URL is missing an 'http://' or 'https://' protocol."))
InvalidURLType == Error("TypeError", Msg("Invalid type for url.  Expected str or httpx.URL, got <class 'NoneType'>"))
InvalidAuth == Error("TypeError", Msg("Invalid \"auth\" argument"))
ClientClosed == Error("RuntimeError", Msg("Cannot send a request, as the client has been closed."))

---------------------------------------------------------------------------
(* Strings: the operations of str the plugin uses, on the strings that occur *)

\* str.upper() of an HTTP method.
Upper(s) ==
    CASE s = "get" -> "GET"
      [] s = "post" -> "POST"
      [] OTHER -> s

\* str.lower() of a declared content type.
Lower(s) ==
    CASE s = "Application/JSON" -> "application/json"
      [] s = "TEXT/HTML" -> "text/html"
      [] OTHER -> s

\* needle in s, for the needles of the response classifier (case-sensitive).
Contains(s, needle) ==
    CASE needle = "application/json" ->
             s \in {"application/json", "application/json; charset=utf-8"}
      [] needle = "text/" -> s \in {"text/plain", "text/html"}
      [] needle = "application/xml" -> s \in {"application/xml"}
      [] OTHER -> FALSE

\* url.startswith('https://')
StartsWithHttps(s) == s \in {"https://api.test/v1", "https://httpbin.org/get"}

\* bool(x) of an optional string, of an optional dict.
TruthyStr(opt) == opt # None /\ opt[1] # ""
TruthyDict(opt) == opt # None /\ DOMAIN opt[1] # {}

\* base64.b64encode: sextets 0..63 of the alphabet, 64 for the padding '='.
b64encode(bytes) ==
    LET n == Len(bytes)
        Byte(k) == IF k <= n THEN bytes[k] ELSE 0
        Group(g) ==
            LET v == Byte(3 * g - 2) * 65536 + Byte(3 * g - 1) * 256 + Byte(3 * g)
            IN  << v \div 262144,
                   (v \div 4096) % 64,
                   IF 3 * g - 1 <= n THEN (v \div 64) % 64 ELSE 64,
                   IF 3 * g <= n THEN v % 64 ELSE 64 >>
    IN  [k \in 1..(4 * ((n + 2) \div 3)) |-> Group((k + 3) \div 4)[((k - 1) % 4) + 1]]

\* response.json(): the parsed body, or json.JSONDecodeError.
json_loads(content) ==
    IF content = BodyEmptyObject
    THEN Return(EmptyDict)
    ELSE Raise(Error("JSONDecodeError", Msg("Expecting property name enclosed in double quotes")))

---------------------------------------------------------------------------
(* _log, _prepare_auth, _validate_response, _parse_response *)

\* _log: self.logs.append(message).  Each line is annotated with `by`, the
\* invocation whose coroutine logged it; the annotation is no part of the message.
log(logs, by, message) == Append(logs, message @@ [by |-> by])

\* The lines one call of a helper logged, appended in order.
log_all(logs, by, messages) ==
    logs \o [k \in DOMAIN messages |-> messages[k] @@ [by |-> by]]

prepare_auth(auth_config) ==
    LET auth_type == GetD(auth_config, "type", "basic")
        username == Get(auth_config, "username")
        password == Get(auth_config, "password")
        token == Get(auth_config, "token")
        key == Get(auth_config, "key")
        header == GetD(auth_config, "header", "X-API-Key")
        unsupported == Raise(Error("ValueError", Text("Unsupported auth type", 0, <<>>, auth_type)))
    IN  CASE auth_type = "basic" ->
                 IF TruthyStr(username) /\ TruthyStr(password)
                 THEN Return([BasicAuth |-> [username |-> username[1], password |-> password[1]]])
                 ELSE unsupported
          [] auth_type = "bearer" ->
                 IF TruthyStr(token)
                 THEN Return([dict |-> ("Authorization" :> <<"Bearer", token[1]>>)])
                 ELSE unsupported
          [] auth_type = "api_key" ->
                 IF TruthyStr(key)
                 THEN Return([dict |-> (header :> <<key[1]>>)])
                 ELSE unsupported
          [] OTHER -> unsupported

InSeq(x, seq) == \E k \in DOMAIN seq : seq[k] = x

validate_response(response, expected_status) ==
    IF ~InSeq(response.status, expected_status)
    THEN Raise(Error("ValueError",
                     Text("Unexpected status code", response.status, expected_status, "")))
    ELSE Return(EmptyDict)

\* Mutant of parse_response: the declared content type is matched as it is
\* written, without lower-casing.
parse_response_case_sensitive(response, url) ==
    LET result == [status |-> response.status,
                   headers |-> response.headers,
                   url |-> url,
                   success |-> response.status < 400]
        content_type == GetD(response.headers, "content-type", "")
        parsed == json_loads(response.content)
    IN  IF Contains(content_type, "application/json")
        THEN IF parsed.raised
             THEN result @@ [data |-> [error |-> Text("Error parsing response", 0, <<>>,
                                                       parsed.error.text.msg)],
                             contentType |-> "error"]
             ELSE result @@ [data |-> [json |-> parsed.value[1]], contentType |-> "json"]
        ELSE IF Contains(content_type, "text/") \/ Contains(content_type, "application/xml")
        THEN result @@ [data |-> [text |-> response.content], contentType |-> "text"]
        ELSE result @@ [data |-> [base64 |-> b64encode(response.content)],
                        contentType |-> "binary",
                        size |-> Len(response.content)]

parse_response(response, url) ==
    LET result == [status |-> response.status,
                   headers |-> response.headers,
                   url |-> url,
                   success |-> response.status < 400]
        content_type == Lower(GetD(response.headers, "content-type", ""))
        parsed == json_loads(response.content)
    IN  IF Contains(content_type, "application/json")
        THEN IF parsed.raised
             THEN result @@ [data |-> [error |-> Text("Error parsing response", 0, <<>>,
                                                       parsed.error.text.msg)],
                             contentType |-> "error"]
             ELSE result @@ [data |-> [json |-> parsed.value[1]], contentType |-> "json"]
        ELSE IF Contains(content_type, "text/") \/ Contains(content_type, "application/xml")
        THEN result @@ [data |-> [text |-> response.content], contentType |-> "text"]
        ELSE result @@ [data |-> [base64 |-> b64encode(response.content)],
                        contentType |-> "binary",
                        size |-> Len(response.content)]

---------------------------------------------------------------------------
(* Inputs: the contexts execute_async is called with *)

PlaceholderUrl == "https://httpbin.org/get"
PlainUrl == "http://api.test/v1"
SecureUrl == "https://api.test/v1"

\* Auth descriptors as callers write them ({} included).
AuthDescriptors ==
    { EmptyDict,
      [type |-> "basic", username |-> "u", password |-> "p"],
      [type |-> "basic", username |-> "u"],
      [username |-> "u", password |-> "p"],
      [type |-> "bearer", token |-> "T"],
      [type |-> "bearer", token |-> ""],
      [type |-> "api_key", key |-> "K"],
      [type |-> "api_key", key |-> "K", header |-> "X-Auth"],
      [type |-> "api_key", header |-> "X-Auth"],
      [type |-> "oauth2", token |-> "T"] }

\* Optional keys of an inputData / endpoint dict: every way of giving some of them.
WithUrl(d) == {d} \cup {d @@ [url |-> u] : u \in {None, Some(""), Some(PlainUrl)}}
WithAuth(d) == {d} \cup {d @@ [auth |-> Some(a)] : a \in AuthDescriptors}
WithValidation(d) ==
    {d, d @@ [validateResponse |-> FALSE], d @@ [expectedStatus |-> <<200, 201>>]}

RequestInputs ==
    UNION { UNION { WithValidation(d2) : d2 \in WithAuth(d1) }
            : d1 \in WithUrl([operation |-> "request", method |-> "post",
                              headers |-> ("Accept" :> <<"*/*">>)]) }

\* inputData without an operation: the default GET.
DefaultInputs ==
    { EmptyDict, [url |-> Some(PlainUrl)], [method |-> "post", url |-> Some(PlainUrl)],
      [method |-> "post", headers |-> ("Accept" :> <<"*/*">>),
       auth |-> Some([type |-> "bearer", token |-> "T"])],
      [url |-> None] }

ProbeInputs ==
    { [operation |-> op] @@ d :
          op \in {"test_endpoint", "health_check"},
          d \in {EmptyDict, [url |-> Some("")], [url |-> Some(PlainUrl)],
                 [url |-> Some(SecureUrl)]} }

UnsupportedInputs ==
    { [operation |-> "delete_everything", url |-> Some(PlainUrl)],
      [operation |-> "Request", url |-> Some(PlainUrl)] }

\* The endpoint dicts of a batch: they reach _make_request as they are.
EndpointConfigs ==
    { [method |-> "get", url |-> Some(PlainUrl)],
      [method |-> "get"],
      [method |-> "get", url |-> Some("")],
      [method |-> "get", url |-> Some(SecureUrl), validateResponse |-> FALSE],
      [method |-> "post", url |-> Some(PlainUrl), auth |-> Some([type |-> "oauth2"])] }

SeqsUpTo(S, n) == UNION { [1..m -> S] : m \in 0..n }

BatchInputs ==
    { [operation |-> "batch_requests", endpoints |-> eps] :
          eps \in SeqsUpTo(EndpointConfigs, MaxBatch) }
        \cup { [operation |-> "batch_requests"] }

---------------------------------------------------------------------------
(* Webhook descriptors; hmac and json.dumps on byte sequences *)

RECURSIVE Fold(_, _, _)
Fold(bytes, mult, h) ==
    IF bytes = <<>> THEN h ELSE Fold(Tail(bytes), mult, (h * mult + Head(bytes)) % 65536)

\* getattr(hashlib, algorithm): the digests hashlib has (a stand-in multiplier each).
HashlibAlgorithms == {"sha256", "sha1", "md5"}
Multiplier(algorithm) ==
    CASE algorithm = "sha256" -> 31
      [] algorithm = "sha1" -> 33
      [] OTHER -> 37

\* The character '0'..'9', 'a'..'f' of a hex digit, as its code point.
HexChar(d) == IF d < 10 THEN 48 + d ELSE 87 + d

\* hmac.new(key, msg, digestmod).hexdigest(): four hex characters of a keyed
\* checksum that stands for the HMAC (a function of key, message and algorithm).
hmac_hexdigest(key, msg, algorithm) ==
    LET h == Fold(key \o <<0>> \o msg, Multiplier(algorithm), 7)
    IN  << HexChar(h \div 4096), HexChar((h \div 256) % 16), HexChar((h \div 16) % 16),
           HexChar(h % 16) >>

\* A str of code points that are all ASCII.
IsAscii(str) == \A k \in DOMAIN str : str[k] < 128

\* hmac.compare_digest(a, b) of two str: both must be ASCII.
compare_digest(a, b) ==
    IF ~(IsAscii(a) /\ IsAscii(b))
    THEN Raise(Error("TypeError",
                     Msg("comparing strings with non-ASCII characters is not supported")))
    ELSE Return(a = b)

\* json.dumps(payload, separators=(',', ':')).encode('utf-8') of a dict given
\* as its items in order, each [key, value] with the bytes of the key and of
\* the value's literal.
RECURSIVE json_items(_)
json_items(items) ==
    IF items = <<>> THEN <<>>
    ELSE <<34>> \o Head(items).key \o <<34, 58>> \o Head(items).value
             \o (IF Tail(items) = <<>> THEN <<>> ELSE <<44>> \o json_items(Tail(items)))
json_dumps(items) == <<123>> \o json_items(items) \o <<125>>

PayloadDict == [dict |-> << [key |-> <<97>>, value |-> <<49>>] >>]
PayloadStr == [str |-> <<104, 105>>]
PayloadEmptyStr == [str |-> <<>>]
Secret == <<115, 51>>

\* bool(payload), and the bytes that are hashed.
TruthyPayload(opt) ==
    opt # None /\ (IF "dict" \in DOMAIN opt[1] THEN opt[1].dict # <<>> ELSE opt[1].str # <<>>)
payload_bytes(payload) ==
    IF "dict" \in DOMAIN payload THEN json_dumps(payload.dict) ELSE payload.str

\* A signature with one character changed: to another hex digit, to a letter
\* outside ASCII.
FlipFirst(sig) == [sig EXCEPT ![1] = IF @ = HexChar(0) THEN HexChar(1) ELSE HexChar(0)]
FlipLastToNonAscii(sig) == [sig EXCEPT ![Len(sig)] = 233]
Without(d, k) == [x \in DOMAIN d \ {k} |-> d[x]]

WebhookDescriptors ==
    UNION { LET algorithm == GetD(a, "algorithm", "sha256")
                good == hmac_hexdigest(Secret, payload_bytes(p),
                                       IF algorithm \in HashlibAlgorithms
                                       THEN algorithm ELSE "sha256")
                full == [payload |-> p, secret |-> Secret, signature |-> good] @@ a
            IN  { full,
                  [full EXCEPT !.signature = FlipFirst(good)],
                  [full EXCEPT !.signature = FlipLastToNonAscii(good)],
                  [full EXCEPT !.signature = <<>>],
                  Without(full, "signature"),
                  Without(full, "secret"),
                  Without(full, "payload") }
            : p \in {PayloadDict, PayloadStr, PayloadEmptyStr},
              a \in {EmptyDict, [algorithm |-> "sha1"], [algorithm |-> "whirlpool"]} }
        \cup {EmptyDict}

WebhookInputs ==
    { [operation |-> "webhook_validate", webhook |-> Some(w)] : w \in WebhookDescriptors }
        \cup { [operation |-> "webhook_validate"] }

\* context['configuration'] / context['executionParameters']: a dict, or some
\* other truthy value (a string).
ConfigValues ==
    { [dict |-> EmptyDict],
      [dict |-> [maxRetries |-> 5, retryDelay |-> 2]],
      [dict |-> [validateSsl |-> "/missing/ca.pem"]],
      [str |-> "fast"] }

Inputs ==
    RequestInputs \cup DefaultInputs \cup ProbeInputs \cup UnsupportedInputs
        \cup BatchInputs \cup WebhookInputs

Contexts ==
    { [inputData |-> Some(d)] : d \in Inputs }
        \cup { [configuration |-> c, inputData |-> Some([operation |-> "request",
                                                          url |-> Some(PlainUrl)])]
               : c \in ConfigValues }
        \cup { [configuration |-> [dict |-> [maxRetries |-> 5, retryDelay |-> 2]],
                inputData |-> Some([operation |-> "request", url |-> Some(PlainUrl),
                                    retries |-> Some(3)])] }
        \cup { [configuration |-> [dict |-> EmptyDict], executionParameters |-> c,
                workingDirectory |-> "/work"] : c \in ConfigValues }
        \cup { EmptyDict, [inputData |-> None] }

---------------------------------------------------------------------------
(* _parse_context, _init_client, _get_operation *)

Line(template, tag) == [template |-> template, args |-> Text("", 0, <<>>, tag)]
NumLine(template, n) == [template |-> template, args |-> Text("", n, <<>>, "")]
ErrorLine(template, text) == [template |-> template, args |-> text]

DefaultConfig ==
    [defaultTimeout |-> 30, maxRetries |-> 3, retryDelay |-> 1, followRedirects |-> TRUE,
     validateSsl |-> "True", userAgent |-> "DevFlow-ApiIntegration/1.0", logLevel |-> "info"]

TruthyValue(v) == IF "dict" \in DOMAIN v THEN DOMAIN v.dict # {} ELSE v.str # ""

\* The config dict, or the TypeError of ** on a value that is no mapping.
parse_context(ctx) ==
    LET configuration == GetD(ctx, "configuration", [dict |-> EmptyDict])
        overrides == IF TruthyValue(configuration) THEN configuration
                     ELSE GetD(ctx, "executionParameters", [dict |-> EmptyDict])
    IN  IF "dict" \in DOMAIN overrides
        THEN Return(overrides.dict @@ DefaultConfig)
        ELSE Raise(Error("TypeError", Msg("argument after ** must be a mapping, not str")))

\* httpx.AsyncClient(...): raises when verify names a CA bundle that does not exist.
init_client(config) ==
    IF config.validateSsl \in {"True", "False"}
    THEN Return(EmptyDict)
    ELSE Raise(Error("OSError", Msg("Could not find a suitable TLS CA certificate bundle")))

\* Mutant of get_operation: the default request keeps the method of inputData.
get_operation_keeping_method(ctx) ==
    LET input_data == GetD(ctx, "inputData", Some(ctx))
    IN  IF input_data = None
        THEN Raise(Error("AttributeError", Msg("'NoneType' object has no attribute 'get'")))
        ELSE LET d == input_data[1]
             IN  IF DOMAIN d = {} \/ GetD(d, "operation", "") = ""
                 THEN Return([type |-> "request",
                              method |-> GetD(d, "method", "GET"),
                              url |-> GetD(d, "url", Some(PlaceholderUrl))])
                 ELSE Return([type |-> GetD(d, "operation", "request"),
                              method |-> GetD(d, "method", "GET"),
                              url |-> GetD(d, "url", None),
                              headers |-> GetD(d, "headers", EmptyDict),
                              params |-> GetD(d, "params", EmptyDict),
                              data |-> GetD(d, "data", None),
                              json |-> GetD(d, "json", None),
                              auth |-> GetD(d, "auth", None),
                              timeout |-> GetD(d, "timeout", None),
                              retries |-> GetD(d, "retries", None),
                              validateResponse |-> GetD(d, "validateResponse", TRUE),
                              expectedStatus |-> GetD(d, "expectedStatus", <<200>>),
                              endpoints |-> GetD(d, "endpoints", <<>>),
                              webhook |-> GetD(d, "webhook", None)])

get_operation(ctx) ==
    LET input_data == GetD(ctx, "inputData", Some(ctx))
    IN  IF input_data = None
        THEN Raise(Error("AttributeError", Msg("'NoneType' object has no attribute 'get'")))
        ELSE LET d == input_data[1]
             IN  IF DOMAIN d = {} \/ GetD(d, "operation", "") = ""
                 THEN Return([type |-> "request",
                              method |-> "GET",
                              url |-> GetD(d, "url", Some(PlaceholderUrl))])
                 ELSE Return([type |-> GetD(d, "operation", "request"),
                              method |-> GetD(d, "method", "GET"),
                              url |-> GetD(d, "url", None),
                              headers |-> GetD(d, "headers", EmptyDict),
                              params |-> GetD(d, "params", EmptyDict),
                              data |-> GetD(d, "data", None),
                              json |-> GetD(d, "json", None),
                              auth |-> GetD(d, "auth", None),
                              timeout |-> GetD(d, "timeout", None),
                              retries |-> GetD(d, "retries", None),
                              validateResponse |-> GetD(d, "validateResponse", TRUE),
                              expectedStatus |-> GetD(d, "expectedStatus", <<200>>),
                              endpoints |-> GetD(d, "endpoints", <<>>),
                              webhook |-> GetD(d, "webhook", None)])

---------------------------------------------------------------------------
(* _make_request, in two halves around `await self.client.request(...)` *)

\* Up to the transport call: the request_kwargs, or the error raised before
\* any call; `logs` are the lines logged on the way.
make_request_build(op) ==
    IF "method" \notin DOMAIN op
    THEN [out |-> Raise(Error("KeyError", Msg("'method'"))), logs |-> <<>>]
    ELSE IF "url" \notin DOMAIN op
    THEN [out |-> Raise(Error("KeyError", Msg("'url'"))), logs |-> <<>>]
    ELSE IF ~TruthyStr(op.url)
    THEN [out |-> Raise(Error("ValueError", Msg("URL is required for API request"))),
          logs |-> <<>>]
    ELSE LET method == Upper(op.method)
             url == op.url[1]
             logs == << Line("Making request to", url) >>
             base == [method |-> method, url |-> url,
                      headers |-> GetD(op, "headers", EmptyDict),
                      params |-> GetD(op, "params", EmptyDict)]
             body == IF TruthyStr(GetD(op, "json", None)) THEN [json |-> op.json[1]]
                     ELSE IF TruthyStr(GetD(op, "data", None)) THEN [data |-> op.data[1]]
                     ELSE EmptyDict
             auth == IF TruthyDict(GetD(op, "auth", None))
                     THEN prepare_auth(op.auth[1]) ELSE Return(EmptyDict)
             timeout == IF GetD(op, "timeout", None) # None /\ op.timeout[1] # 0
                        THEN [timeout |-> op.timeout[1]] ELSE EmptyDict
         IN  IF auth.raised
             THEN [out |-> Raise(auth.error), logs |-> logs]
             ELSE [out |-> Return(base @@ body @@ timeout
                                  @@ (IF TruthyDict(GetD(op, "auth", None))
                                      THEN [auth |-> auth.value[1]] ELSE EmptyDict)),
                   logs |-> logs]

\* What the client does with a call: a response, or an exception.  A dict in
\* the auth slot is refused by httpx (TypeError); so is a call issued on a
\* closed client (RuntimeError).  `client_state` is the client's state when the
\* call was issued: a call in flight while the client is closed may still end
\* in a response or in a transport error.
TransportOutcomes(kwargs, client_state) ==
    IF client_state # "open" THEN { Failed(ClientClosed) }
    ELSE IF "auth" \in DOMAIN kwargs /\ "dict" \in DOMAIN kwargs.auth
    THEN { Failed(InvalidAuth) }
    ELSE { Received(r) : r \in Responses } \cup { Failed(ConnectError) }

\* self.client.get(url): httpx refuses a URL that is None or has no scheme.
ProbeOutcomes(url, client_state) ==
    IF client_state # "open" THEN { Failed(ClientClosed) }
    ELSE IF url = None THEN { Failed(InvalidURLType) }
    ELSE IF url[1] = "" THEN { Failed(InvalidURL) }
    ELSE { Received(r) : r \in Responses } \cup { Failed(ConnectError) }

\* Mutant of make_request_finish: the attempt counter follows the operation's
\* `retries` value.
make_request_finish_counting_retries(op, kwargs, outcome) ==
    IF outcome.raised
    THEN [out |-> Raise(outcome.error), logs |-> <<>>]
    ELSE LET response == outcome.response
             logs == << NumLine("Request completed - Status", response.status) >>
             valid == IF GetD(op, "validateResponse", TRUE)
                      THEN validate_response(response, GetD(op, "expectedStatus", <<200>>))
                      ELSE Return(EmptyDict)
             retries == GetD(op, "retries", None)
         IN  IF valid.raised
             THEN [out |-> Raise(valid.error), logs |-> logs]
             ELSE [out |-> Return(parse_response(response, kwargs.url)
                                  @@ [requestTime |-> response.elapsed,
                                      attempt |-> IF retries = None THEN 1 ELSE retries[1]]),
                   logs |-> logs]

\* From the response on: the Execution Result, or the error raised.
make_request_finish(op, kwargs, outcome) ==
    IF outcome.raised
    THEN [out |-> Raise(outcome.error), logs |-> <<>>]
    ELSE LET response == outcome.response
             logs == << NumLine("Request completed - Status", response.status) >>
             valid == IF GetD(op, "validateResponse", TRUE)
                      THEN validate_response(response, GetD(op, "expectedStatus", <<200>>))
                      ELSE Return(EmptyDict)
         IN  IF valid.raised
             THEN [out |-> Raise(valid.error), logs |-> logs]
             ELSE [out |-> Return(parse_response(response, kwargs.url)
                                  @@ [requestTime |-> response.elapsed, attempt |-> 1]),
                   logs |-> logs]

---------------------------------------------------------------------------
(* State *)

VARIABLES
    running,        \* the coroutine holding the event loop ("" when it is free)
    pc,             \* pc[i]: where invocation i of execute_async is
    context,        \* context[i]: its argument
    operation,      \* operation[i]: its local `operation`
    error,          \* error[i]: the exception on its way to the except clause
    result,         \* result[i]: its local `result`
    call,           \* call[i]: its transport call in flight: the arguments, the client
    items,          \* items[i]: the tasks of its batch, one per endpoint
    envelope,       \* envelope[i]: the dict it returns
    self_logs,      \* self.logs
    self_config,    \* self.config
    self_working_directory,
    self_client,    \* self.client: "" (None), or the invocation that constructed it
    clients,        \* clients[c]: the client invocation c constructed: none, open, closed
    issued,         \* issued[i]: transport calls issued by invocation i so far
    late            \* a transport call was issued on a client already closed

vars == << running, pc, context, operation, error, result, call, items, envelope,
           self_logs, self_config, self_working_directory, self_client, clients,
           issued, late >>

NoEnvelope == [none |-> TRUE]
NoCall == [kwargs |-> EmptyDict, client |-> "", issued_on |-> "none", response |-> NoResponse]

Init ==
    /\ running = ""
    /\ pc = [i \in Invocations |-> "idle"]
    /\ context = [i \in Invocations |-> EmptyDict]
    /\ operation = [i \in Invocations |-> EmptyDict]
    /\ error = [i \in Invocations |-> NoError]
    /\ result = [i \in Invocations |-> EmptyDict]
    /\ call = [i \in Invocations |-> NoCall]
    /\ items = [i \in Invocations |-> <<>>]
    /\ envelope = [i \in Invocations |-> NoEnvelope]
    /\ self_logs = <<>>
    /\ self_config = EmptyDict
    /\ self_working_directory = "/tmp"
    /\ self_client = ""
    /\ clients = [i \in Invocations |-> "none"]
    /\ issued = [i \in Invocations |-> 0]
    /\ late = FALSE

\* Invocation i runs on (it holds the event loop) / is resumed (the loop is free).
At(i, where) == pc[i] = where /\ running = i
Resumes(i, where) == pc[i] = where /\ running = ""

Goto(i, where) == pc' = [pc EXCEPT ![i] = where]
RaiseTo(i, e) == /\ error' = [error EXCEPT ![i] = e]
                 /\ pc' = [pc EXCEPT ![i] = "except"]

ClientState == IF self_client = "" THEN "none" ELSE clients[self_client]

---------------------------------------------------------------------------
(* execute_async *)

\* execute_async is entered: self.start_time and self.logs are reset and the
\* first line is logged.
Enter(i) ==
    /\ Resumes(i, "idle")
    /\ running' = i
    /\ self_logs' = log(<<>>, i, Line("ApiIntegration plugin execution started", ""))
    /\ Goto(i, "parse_context")
    /\ UNCHANGED << context, operation, error, result, call, items, envelope, self_config,
                    self_working_directory, self_client, clients, issued, late >>

\* A call of execute_async while no other invocation is in progress.
Start(i) ==
    /\ \A j \in Invocations : pc[j] = "idle"
    /\ Enter(i)

\* self._parse_context(context), the first use of the argument: any context.
ParseContext(i) ==
    /\ At(i, "parse_context")
    /\ \E ctx \in Contexts :
           LET parsed == parse_context(ctx)
           IN  /\ context' = [context EXCEPT ![i] = ctx]
               /\ IF parsed.raised
                  THEN /\ RaiseTo(i, parsed.error)
                       /\ UNCHANGED << self_config, self_working_directory, self_logs >>
                  ELSE /\ self_config' = parsed.value[1]
                       /\ self_working_directory' = GetD(ctx, "workingDirectory", "/tmp")
                       /\ self_logs' =
                              log(log(self_logs, i,
                                      NumLine("Configuration loaded - Timeout",
                                              parsed.value[1].defaultTimeout)),
                                  i, NumLine("Max retries", parsed.value[1].maxRetries))
                       /\ Goto(i, "init_client")
                       /\ UNCHANGED error
    /\ UNCHANGED << running, operation, result, call, items, envelope, self_client,
                    clients, issued, late >>

InitClient(i) ==
    /\ At(i, "init_client")
    /\ LET made == init_client(self_config)
       IN  IF made.raised
           THEN /\ RaiseTo(i, made.error)
                /\ UNCHANGED << self_client, clients, self_logs >>
           ELSE /\ self_client' = i
                /\ clients' = [clients EXCEPT ![i] = "open"]
                /\ self_logs' = log(self_logs, i, Line("HTTP client initialized", ""))
                /\ Goto(i, "get_operation")
                /\ UNCHANGED error
    /\ UNCHANGED << running, context, operation, result, call, items, envelope, self_config,
                    self_working_directory, issued, late >>

GetOperation(i) ==
    /\ At(i, "get_operation")
    /\ LET got == get_operation(context[i])
       IN  IF got.raised
           THEN /\ RaiseTo(i, got.error)
                /\ UNCHANGED << operation, self_logs >>
           ELSE /\ operation' = [operation EXCEPT ![i] = got.value[1]]
                /\ self_logs' = log(self_logs, i, Line("Performing operation", got.value[1].type))
                /\ Goto(i, "perform_operation")
                /\ UNCHANGED error
    /\ UNCHANGED << running, context, result, call, items, envelope, self_config,
                    self_working_directory, self_client, clients, issued, late >>

\* _perform_operation: the handler the type tag selects, "" for none.
\* Mutant of perform_operation: an unknown type is handled as a request.
perform_operation_defaulting_to_request(op) ==
    CASE op.type = "batch_requests" -> "make_batch_requests"
      [] op.type = "test_endpoint" -> "test_endpoint"
      [] op.type = "webhook_validate" -> "validate_webhook"
      [] op.type = "health_check" -> "health_check"
      [] OTHER -> "make_request"

perform_operation(op) ==
    CASE op.type = "request" -> "make_request"
      [] op.type = "batch_requests" -> "make_batch_requests"
      [] op.type = "test_endpoint" -> "test_endpoint"
      [] op.type = "webhook_validate" -> "validate_webhook"
      [] op.type = "health_check" -> "health_check"
      [] OTHER -> ""

PerformOperation(i) ==
    /\ At(i, "perform_operation")
    /\ LET handler == perform_operation(operation[i])
       IN  IF handler = ""
           THEN RaiseTo(i, Error("ValueError",
                                 Text("Unsupported operation", 0, <<>>, operation[i].type)))
           ELSE Goto(i, handler) /\ UNCHANGED error
    /\ UNCHANGED << running, context, operation, result, call, items, envelope, self_logs,
                    self_config, self_working_directory, self_client, clients, issued, late >>

\* Mutant of success_envelope: the success flag follows the verdict in data.
success_envelope_following_verdict(op, data, logs) ==
    [success |-> IF "success" \in DOMAIN data THEN data.success
                 ELSE IF "overall" \in DOMAIN data
                 THEN data.overall \notin {"failed", "unhealthy"}
                 ELSE IF "valid" \in DOMAIN data THEN data.valid
                 ELSE data.failed = 0,
     message |-> Text("API operation completed successfully", 0, <<>>, op.type),
     data |-> data,
     executionTimeMs |-> "elapsed",
     timestamp |-> "utcnow",
     logs |-> logs]

\* The envelopes of the two return statements.
success_envelope(op, data, logs) ==
    [success |-> TRUE,
     message |-> Text("API operation completed successfully", 0, <<>>, op.type),
     data |-> data,
     executionTimeMs |-> "elapsed",
     timestamp |-> "utcnow",
     logs |-> logs]

failure_envelope(e, logs) ==
    [success |-> FALSE,
     message |-> [prefix |-> "API operation failed", error_message |-> e.text],
     executionTimeMs |-> "elapsed",
     timestamp |-> "utcnow",
     logs |-> logs]

\* The handler returned: the rest of the try block.
Succeed(i) ==
    /\ At(i, "succeed")
    /\ LET logs == log(self_logs, i, Line("Operation completed", ""))
       IN  /\ self_logs' = logs
           /\ envelope' = [envelope EXCEPT ![i] = success_envelope(operation[i], result[i], logs)]
    /\ Goto(i, "finally")
    /\ UNCHANGED << running, context, operation, error, result, call, items, self_config,
                    self_working_directory, self_client, clients, issued, late >>

\* Mutant of catches: a handler written for the plugin's own ValueError only.
catches_ValueError_only(e) == e.exc = "ValueError"

\* `except Exception` catches every error the plugin, httpx and json raise
\* (KeyboardInterrupt, SystemExit and CancelledError are no Exception).
catches(e) == e.exc \notin {"KeyboardInterrupt", "SystemExit", "CancelledError"}

\* except Exception as error; an error it does not catch goes on to the caller
\* after the finally clause.
Except(i) ==
    /\ At(i, "except")
    /\ IF catches(error[i])
       THEN LET logs == log(self_logs, i, ErrorLine("Error", error[i].text))
            IN  /\ self_logs' = logs
                /\ envelope' = [envelope EXCEPT ![i] = failure_envelope(error[i], logs)]
       ELSE UNCHANGED << self_logs, envelope >>
    /\ Goto(i, "finally")
    /\ UNCHANGED << running, context, operation, error, result, call, items, self_config,
                    self_working_directory, self_client, clients, issued, late >>

\* finally: if self.client: await self.client.aclose().  aclose marks the client
\* closed before it suspends; the client closed is whatever self.client is now.
\* Mutant of finally_closes: the teardown is missing.
finally_never_closes(client) == FALSE

finally_closes(client) == client # ""

Finally(i) ==
    /\ At(i, "finally")
    /\ running' = ""
    /\ IF finally_closes(self_client)
       THEN /\ clients' = [clients EXCEPT ![self_client] = "closed"]
            /\ Goto(i, "closing")
       ELSE /\ Goto(i, IF envelope[i] = NoEnvelope THEN "raised" ELSE "returned")
            /\ UNCHANGED clients
    /\ UNCHANGED << context, operation, error, result, call, items, envelope, self_logs,
                    self_config, self_working_directory, self_client, issued, late >>

\* aclose() is done: execute_async returns the envelope (or the error it did
\* not catch reaches the caller).
Returned(i) ==
    /\ Resumes(i, "closing")
    /\ Goto(i, IF envelope[i] = NoEnvelope THEN "raised" ELSE "returned")
    /\ UNCHANGED << running, context, operation, error, result, call, items, envelope, self_logs,
                    self_config, self_working_directory, self_client, clients, issued, late >>

\* The caller takes the envelope; the coroutine and its locals are gone.
Collect(i) ==
    /\ pc[i] \in {"returned", "raised"}
    /\ running = ""
    /\ Goto(i, "idle")
    /\ context' = [context EXCEPT ![i] = EmptyDict]
    /\ operation' = [operation EXCEPT ![i] = EmptyDict]
    /\ error' = [error EXCEPT ![i] = NoError]
    /\ result' = [result EXCEPT ![i] = EmptyDict]
    /\ call' = [call EXCEPT ![i] = NoCall]
    /\ items' = [items EXCEPT ![i] = <<>>]
    /\ envelope' = [envelope EXCEPT ![i] = NoEnvelope]
    /\ issued' = [issued EXCEPT ![i] = 0]
    /\ UNCHANGED << running, self_logs, self_config, self_working_directory, self_client,
                    clients, late >>

---------------------------------------------------------------------------
(* The request handler *)

MakeRequestSend(i) ==
    /\ At(i, "make_request")
    /\ LET built == make_request_build(operation[i])
       IN  /\ self_logs' = log_all(self_logs, i, built.logs)
           /\ IF built.out.raised
              THEN /\ RaiseTo(i, built.out.error)
                   /\ UNCHANGED << running, call, issued, late >>
              ELSE /\ call' = [call EXCEPT ![i] = [kwargs |-> built.out.value[1],
                                                   client |-> self_client,
                                                   issued_on |-> ClientState,
                                                   response |-> NoResponse]]
                   /\ issued' = [issued EXCEPT ![i] = @ + 1]
                   /\ late' = (late \/ ClientState # "open")
                   /\ running' = ""
                   /\ Goto(i, "request_sent")
                   /\ UNCHANGED error
    /\ UNCHANGED << context, operation, result, items, envelope, self_config,
                    self_working_directory, self_client, clients >>

MakeRequestReceive(i) ==
    /\ Resumes(i, "request_sent")
    /\ running' = i
    /\ \E outcome \in TransportOutcomes(call[i].kwargs, call[i].issued_on) :
           LET done == make_request_finish(operation[i], call[i].kwargs, outcome)
           IN  /\ self_logs' = log_all(self_logs, i, done.logs)
               /\ call' = [call EXCEPT ![i].response = outcome.response]
               /\ IF done.out.raised
                  THEN RaiseTo(i, done.out.error) /\ UNCHANGED result
                  ELSE /\ result' = [result EXCEPT ![i] = done.out.value[1]]
                       /\ Goto(i, "succeed")
                       /\ UNCHANGED error
    /\ UNCHANGED << context, operation, items, envelope, self_config,
                    self_working_directory, self_client, clients, issued, late >>

---------------------------------------------------------------------------
(* The batch handler: asyncio.gather over one make_single_request per endpoint *)

NoItem == [pc |-> "created", call |-> NoCall, out |-> Return(EmptyDict)]

\* Mutant of make_single_request: no try/except, the task raises what
\* _make_request raised.
make_single_request_unguarded(endpoint_config, made) == made

\* make_single_request: the try/except around _make_request.  `made` is what
\* _make_request did (returned a result or raised); the task returns a failure
\* record in place of the error.
make_single_request(endpoint_config, made) ==
    IF made.raised
    THEN Return([url |-> GetD(endpoint_config, "url", None),
                 error |-> made.error.text,
                 success |-> FALSE])
    ELSE made

\* Mutant of batch_result: a result counts as successful when it is no failure
\* record, whatever its success field says.
batch_result_counting_records(endpoints, results) ==
    LET successful == Cardinality({k \in DOMAIN results : "error" \notin DOMAIN results[k]})
    IN  [totalRequests |-> Len(endpoints),
         successful |-> successful,
         failed |-> Len(results) - successful,
         batchTime |-> "elapsed",
         results |-> results]

\* The Batch Result, from the results gather returned (in the order of its arguments).
batch_result(endpoints, results) ==
    LET successful == Cardinality({k \in DOMAIN results : GetD(results[k], "success", TRUE)})
    IN  [totalRequests |-> Len(endpoints),
         successful |-> successful,
         failed |-> Len(results) - successful,
         batchTime |-> "elapsed",
         results |-> results]

\* Up to `await asyncio.gather(...)`: one task per endpoint is created.  gather of
\* nothing is done at once; otherwise the coordinator is suspended.
BatchStart(i) ==
    /\ At(i, "make_batch_requests")
    /\ LET endpoints == operation[i].endpoints
       IN  /\ self_logs' = log(self_logs, i, NumLine("Making batch requests to endpoints",
                                                     Len(endpoints)))
           /\ items' = [items EXCEPT ![i] = [k \in DOMAIN endpoints |-> NoItem]]
           /\ running' = IF endpoints = <<>> THEN i ELSE ""
    /\ Goto(i, "gather")
    /\ UNCHANGED << context, operation, error, result, call, envelope, self_config,
                    self_working_directory, self_client, clients, issued, late >>

\* Task k runs from its start to its transport call (or to its end, when
\* _make_request raises before the call).  Tasks start in the order of creation.
ItemSend(i, k) ==
    /\ pc[i] = "gather" /\ running = ""
    /\ k \in DOMAIN items[i]
    /\ items[i][k].pc = "created"
    /\ \A j \in 1..(k - 1) : items[i][j].pc # "created"
    /\ LET endpoint == operation[i].endpoints[k]
           built == make_request_build(endpoint)
       IN  /\ self_logs' = log_all(self_logs, i, built.logs)
           /\ IF built.out.raised
              THEN /\ items' = [items EXCEPT ![i][k] =
                                    [pc |-> "done", call |-> NoCall,
                                     out |-> make_single_request(endpoint, built.out)]]
                   /\ UNCHANGED << issued, late >>
              ELSE /\ items' = [items EXCEPT ![i][k] =
                                    [pc |-> "sent",
                                     call |-> [kwargs |-> built.out.value[1],
                                               client |-> self_client,
                                               issued_on |-> ClientState,
                                               response |-> NoResponse],
                                     out |-> Return(EmptyDict)]]
                   /\ issued' = [issued EXCEPT ![i] = @ + 1]
                   /\ late' = (late \/ ClientState # "open")
    /\ UNCHANGED << running, pc, context, operation, error, result, call, envelope,
                    self_config, self_working_directory, self_client, clients >>

\* The response of task k arrives (in any order among the tasks); the task runs to its end.
ItemReceive(i, k) ==
    /\ pc[i] = "gather" /\ running = ""
    /\ k \in DOMAIN items[i]
    /\ items[i][k].pc = "sent"
    /\ \E outcome \in TransportOutcomes(items[i][k].call.kwargs,
                                        items[i][k].call.issued_on) :
           LET endpoint == operation[i].endpoints[k]
               done == make_request_finish(endpoint, items[i][k].call.kwargs, outcome)
           IN  /\ self_logs' = log_all(self_logs, i, done.logs)
               /\ items' = [items EXCEPT ![i][k].pc = "done",
                                         ![i][k].call.response = outcome.response,
                                         ![i][k].out = make_single_request(endpoint, done.out)]
    /\ UNCHANGED << running, pc, context, operation, error, result, call, envelope,
                    self_config, self_working_directory, self_client, clients, issued, late >>

\* gather is done when every task has returned, or as soon as one has raised:
\* it then raises that error in the coordinator and leaves the other tasks running.
GatherRaised(i) == \E k \in DOMAIN items[i] : items[i][k].pc = "done" /\ items[i][k].out.raised
GatherDone(i) == \A k \in DOMAIN items[i] : items[i][k].pc = "done"

BatchJoin(i) ==
    /\ pc[i] = "gather"
    /\ running = IF operation[i].endpoints = <<>> THEN i ELSE ""
    /\ IF GatherRaised(i) THEN TRUE ELSE GatherDone(i)
    /\ running' = i
    /\ IF GatherRaised(i)
       THEN /\ RaiseTo(i, items[i][CHOOSE k \in DOMAIN items[i] :
                                       items[i][k].pc = "done" /\ items[i][k].out.raised].out.error)
            /\ UNCHANGED << result, self_logs >>
       ELSE LET results == [k \in DOMAIN items[i] |-> items[i][k].out.value[1]]
                batch == batch_result(operation[i].endpoints, results)
            IN  /\ result' = [result EXCEPT ![i] = batch]
                /\ self_logs' = log(self_logs, i,
                                    [template |-> "Batch completed - successful, failed",
                                     args |-> Text("", batch.successful, <<batch.failed>>, "")])
                /\ Goto(i, "succeed")
                /\ UNCHANGED error
    /\ UNCHANGED << context, operation, call, envelope, items, self_config,
                    self_working_directory, self_client, clients, issued, late >>

---------------------------------------------------------------------------
(* The endpoint diagnostics: three requests, one after the other *)

Check(name, status, details) == [name |-> name, status |-> status, details |-> details]
Add(test_results, check) == [test_results EXCEPT !.tests = Append(@, check)]
AddFailed(test_results, check) ==
    [test_results EXCEPT !.tests = Append(@, check), !.overall = "failed"]

\* The n-th try block of _test_endpoint, given what its request did.
test_check(n, test_results, outcome) ==
    CASE n = 1 ->
             IF outcome.raised
             THEN AddFailed(test_results,
                            Check("Connectivity", "failed",
                                  ErrorLine("Endpoint unreachable", outcome.error.text)))
             ELSE Add(test_results,
                      Check("Connectivity", "passed",
                            NumLine("Endpoint reachable - Status", outcome.response.status)))
      [] n = 2 ->
             IF outcome.raised
             THEN AddFailed(test_results,
                            Check("Response Time", "failed",
                                  ErrorLine("Timeout or error", outcome.error.text)))
             ELSE IF outcome.response.elapsed < 1000
             THEN Add(test_results,
                      Check("Response Time", "passed",
                            NumLine("Response time", outcome.response.elapsed)))
             ELSE Add(test_results,
                      Check("Response Time", "warning",
                            NumLine("Slow response", outcome.response.elapsed)))
      [] OTHER ->
             IF outcome.raised
             THEN Add(test_results,
                      Check("Response Analysis", "failed",
                            ErrorLine("Error analyzing response", outcome.error.text)))
             ELSE LET content_type == GetD(outcome.response.headers, "content-type", "")
                  IN  IF Contains(content_type, "application/json")
                      THEN IF json_loads(outcome.response.content).raised
                           THEN AddFailed(test_results,
                                          Check("JSON Format", "failed",
                                                Line("Invalid JSON in response", "")))
                           ELSE Add(test_results,
                                    Check("JSON Format", "passed", Line("Valid JSON response", "")))
                      ELSE Add(test_results,
                               Check("Content Type", "info", Line("Content-Type", content_type)))

Probe(url) ==
    [kwargs |-> [method |-> "GET", url |-> url], client |-> self_client,
     issued_on |-> ClientState, response |-> NoResponse]

\* Up to the first `await self.client.get(url)`.
TestStart(i) ==
    /\ At(i, "test_endpoint")
    /\ LET url == operation[i].url
       IN  /\ self_logs' = log(self_logs, i, Line("Testing endpoint", IF url = None THEN "None" ELSE url[1]))
           /\ result' = [result EXCEPT ![i] = [url |-> url, tests |-> <<>>, overall |-> "passed"]]
           /\ call' = [call EXCEPT ![i] = Probe(url)]
    /\ issued' = [issued EXCEPT ![i] = @ + 1]
    /\ late' = (late \/ ClientState # "open")
    /\ running' = ""
    /\ Goto(i, "test_sent")
    /\ UNCHANGED << context, operation, error, items, envelope, self_config,
                    self_working_directory, self_client, clients >>

\* A request of the suite ends: its check is recorded, and the next request is
\* issued, or after the third the report is returned.
TestReceive(i) ==
    /\ Resumes(i, "test_sent")
    /\ \E outcome \in ProbeOutcomes(call[i].kwargs.url, call[i].issued_on) :
           LET n == Len(result[i].tests) + 1
               test_results == test_check(n, result[i], outcome)
           IN  /\ result' = [result EXCEPT ![i] = test_results]
               /\ IF n < 3
                  THEN /\ call' = [call EXCEPT ![i] = Probe(operation[i].url)]
                       /\ issued' = [issued EXCEPT ![i] = @ + 1]
                       /\ late' = (late \/ ClientState # "open")
                       /\ UNCHANGED << running, pc, self_logs >>
                  ELSE /\ self_logs' = log(self_logs, i,
                                           Line("Endpoint test completed - Overall",
                                                test_results.overall))
                       /\ running' = i
                       /\ Goto(i, "succeed")
                       /\ UNCHANGED << call, issued, late >>
    /\ UNCHANGED << context, operation, error, items, envelope, self_config,
                    self_working_directory, self_client, clients >>

---------------------------------------------------------------------------
(* The webhook verifier *)

\* Mutant of validate_webhook: the digest constructor is looked up before the
\* required fields are checked.
validate_webhook_digest_first(webhook_config) ==
    IF webhook_config = None
    THEN [out |-> Raise(Error("AttributeError", Msg("'NoneType' object has no attribute 'get'"))),
          logs |-> <<>>]
    ELSE LET w == webhook_config[1]
             payload == Get(w, "payload")
             signature == Get(w, "signature")
             secret == Get(w, "secret")
             algorithm == GetD(w, "algorithm", "sha256")
             logs == << Line("Validating webhook signature", "") >>
         IN  IF algorithm \notin HashlibAlgorithms
             THEN [out |-> Raise(Error("AttributeError",
                                       Text("module 'hashlib' has no attribute", 0, <<>>, algorithm))),
                   logs |-> logs]
             ELSE IF ~(TruthyPayload(payload) /\ signature # None /\ signature[1] # <<>>
                         /\ secret # None /\ secret[1] # <<>>)
             THEN [out |-> Raise(Error("ValueError",
                                       Msg("Payload, signature, and secret are required for webhook validation"))),
                   logs |-> logs]
             ELSE LET bytes == payload_bytes(payload[1])
                      expected_signature == hmac_hexdigest(secret[1], bytes, algorithm)
                      compared == compare_digest(signature[1], expected_signature)
                      signature_match == compared.value[1]
                  IN  IF compared.raised
                      THEN [out |-> Raise(compared.error), logs |-> logs]
                      ELSE [out |-> Return([valid |-> signature_match,
                                            algorithm |-> algorithm,
                                            providedSignature |-> signature[1],
                                            expectedSignature |-> expected_signature,
                                            payloadSize |-> Len(bytes)]),
                            logs |-> Append(logs,
                                            IF signature_match
                                            THEN Line("Webhook signature validation passed", "")
                                            ELSE Line("Webhook signature validation failed", ""))]

validate_webhook(webhook_config) ==
    IF webhook_config = None
    THEN [out |-> Raise(Error("AttributeError", Msg("'NoneType' object has no attribute 'get'"))),
          logs |-> <<>>]
    ELSE LET w == webhook_config[1]
             payload == Get(w, "payload")
             signature == Get(w, "signature")
             secret == Get(w, "secret")
             algorithm == GetD(w, "algorithm", "sha256")
             logs == << Line("Validating webhook signature", "") >>
         IN  IF ~(TruthyPayload(payload) /\ signature # None /\ signature[1] # <<>>
                    /\ secret # None /\ secret[1] # <<>>)
             THEN [out |-> Raise(Error("ValueError",
                                       Msg("Payload, signature, and secret are required for webhook validation"))),
                   logs |-> logs]
             ELSE IF algorithm \notin HashlibAlgorithms
             THEN [out |-> Raise(Error("AttributeError",
                                       Text("module 'hashlib' has no attribute", 0, <<>>, algorithm))),
                   logs |-> logs]
             ELSE LET bytes == payload_bytes(payload[1])
                      expected_signature == hmac_hexdigest(secret[1], bytes, algorithm)
                      compared == compare_digest(signature[1], expected_signature)
                      signature_match == compared.value[1]
                  IN  IF compared.raised
                      THEN [out |-> Raise(compared.error), logs |-> logs]
                      ELSE [out |-> Return([valid |-> signature_match,
                                            algorithm |-> algorithm,
                                            providedSignature |-> signature[1],
                                            expectedSignature |-> expected_signature,
                                            payloadSize |-> Len(bytes)]),
                            logs |-> Append(logs,
                                            IF signature_match
                                            THEN Line("Webhook signature validation passed", "")
                                            ELSE Line("Webhook signature validation failed", ""))]

ValidateWebhook(i) ==
    /\ At(i, "validate_webhook")
    /\ LET done == validate_webhook(operation[i].webhook)
       IN  /\ self_logs' = log_all(self_logs, i, done.logs)
           /\ IF done.out.raised
              THEN RaiseTo(i, done.out.error) /\ UNCHANGED result
              ELSE /\ result' = [result EXCEPT ![i] = done.out.value[1]]
                   /\ Goto(i, "succeed")
                   /\ UNCHANGED error
    /\ UNCHANGED << running, context, operation, call, items, envelope, self_config,
                    self_working_directory, self_client, clients, issued, late >>

---------------------------------------------------------------------------
(* The health aggregator: connectivity, ssl (https only), security headers *)

security_headers ==
    << "x-frame-options", "x-content-type-options", "x-xss-protection",
       "strict-transport-security" >>

connectivity_check(outcome) ==
    IF outcome.raised
    THEN [status |-> "unhealthy", error |-> outcome.error.text]
    ELSE [status |-> IF outcome.response.status < 400 THEN "healthy" ELSE "unhealthy",
          statusCode |-> outcome.response.status,
          responseTime |-> outcome.response.elapsed]

ssl_check(outcome) ==
    IF outcome.raised
    THEN [status |-> "unhealthy", error |-> outcome.error.text]
    ELSE [status |-> "healthy", details |-> "SSL certificate valid"]

security_headers_check(outcome) ==
    IF outcome.raised
    THEN [status |-> "unhealthy", error |-> outcome.error.text]
    ELSE LET HasHeader(h) == h \in DOMAIN outcome.response.headers
             present == SelectSeq(security_headers, HasHeader)
         IN  [status |-> IF Len(present) > 2 THEN "healthy" ELSE "warning",
              present |-> present,
              total |-> Len(security_headers)]

\* Mutant of overall_health: exactly half healthy already counts as a majority.
overall_health_half_is_enough(checks) ==
    LET healthy_count == Cardinality({c \in DOMAIN checks : checks[c].status = "healthy"})
        total_checks == Cardinality(DOMAIN checks)
    IN  IF healthy_count = total_checks THEN "healthy"
        ELSE IF 2 * healthy_count >= total_checks THEN "degraded"
        ELSE "unhealthy"

\* "Determine overall health"
overall_health(checks) ==
    LET healthy_count == Cardinality({c \in DOMAIN checks : checks[c].status = "healthy"})
        total_checks == Cardinality(DOMAIN checks)
    IN  IF healthy_count = total_checks THEN "healthy"
        ELSE IF 2 * healthy_count > total_checks THEN "degraded"
        ELSE "unhealthy"

\* The check whose request is in flight, from the checks recorded so far.
CheckDue(health_data) ==
    IF "connectivity" \notin DOMAIN health_data.checks THEN "connectivity"
    ELSE IF StartsWithHttps(health_data.url[1]) /\ "ssl" \notin DOMAIN health_data.checks
    THEN "ssl"
    ELSE "security_headers"

Record(health_data, name, check) ==
    [health_data EXCEPT !.checks = (name :> check) @@ @]

\* Up to the first `await self.client.get(url)`.
HealthStart(i) ==
    /\ At(i, "health_check")
    /\ LET url == operation[i].url
       IN  /\ self_logs' = log(self_logs, i, Line("Performing health check on",
                                                  IF url = None THEN "None" ELSE url[1]))
           /\ result' = [result EXCEPT ![i] =
                             [url |-> url, timestamp |-> "utcnow", checks |-> EmptyDict]]
           /\ call' = [call EXCEPT ![i] = Probe(url)]
    /\ issued' = [issued EXCEPT ![i] = @ + 1]
    /\ late' = (late \/ ClientState # "open")
    /\ running' = ""
    /\ Goto(i, "health_sent")
    /\ UNCHANGED << context, operation, error, items, envelope, self_config,
                    self_working_directory, self_client, clients >>

\* The connectivity request ends; url.startswith raises when url is None.
HealthConnectivity(i) ==
    /\ Resumes(i, "health_sent")
    /\ "connectivity" \notin DOMAIN result[i].checks
    /\ \E outcome \in ProbeOutcomes(call[i].kwargs.url, call[i].issued_on) :
           result' = [result EXCEPT ![i] = Record(@, "connectivity", connectivity_check(outcome))]
    /\ IF operation[i].url = None
       THEN /\ RaiseTo(i, Error("AttributeError",
                                Msg("'NoneType' object has no attribute 'startswith'")))
            /\ running' = i
            /\ UNCHANGED << call, issued, late >>
       ELSE /\ call' = [call EXCEPT ![i] = Probe(operation[i].url)]
            /\ issued' = [issued EXCEPT ![i] = @ + 1]
            /\ late' = (late \/ ClientState # "open")
            /\ UNCHANGED << running, pc, error >>
    /\ UNCHANGED << context, operation, items, envelope, self_logs, self_config,
                    self_working_directory, self_client, clients >>

\* The ssl request ends (https URLs only); the security-headers request is issued.
HealthSsl(i) ==
    /\ Resumes(i, "health_sent")
    /\ "connectivity" \in DOMAIN result[i].checks
    /\ CheckDue(result[i]) = "ssl"
    /\ \E outcome \in ProbeOutcomes(call[i].kwargs.url, call[i].issued_on) :
           result' = [result EXCEPT ![i] = Record(@, "ssl", ssl_check(outcome))]
    /\ call' = [call EXCEPT ![i] = Probe(operation[i].url)]
    /\ issued' = [issued EXCEPT ![i] = @ + 1]
    /\ late' = (late \/ ClientState # "open")
    /\ UNCHANGED << running, pc, context, operation, error, items, envelope, self_logs,
                    self_config, self_working_directory, self_client, clients >>

\* The security-headers request ends; the overall verdict is computed.
HealthSecurityHeaders(i) ==
    /\ Resumes(i, "health_sent")
    /\ "connectivity" \in DOMAIN result[i].checks
    /\ CheckDue(result[i]) = "security_headers"
    /\ \E outcome \in ProbeOutcomes(call[i].kwargs.url, call[i].issued_on) :
           LET health_data == Record(result[i], "security_headers",
                                     security_headers_check(outcome))
               overall == overall_health(health_data.checks)
           IN  /\ result' = [result EXCEPT ![i] = health_data @@ [overall |-> overall]]
               /\ self_logs' = log(self_logs, i, Line("Health check completed - Overall", overall))
    /\ running' = i
    /\ Goto(i, "succeed")
    /\ UNCHANGED << context, operation, error, call, items, envelope, self_config,
                    self_working_directory, self_client, clients, issued, late >>

Next ==
    \E i \in Invocations :
        \/ Start(i)
        \/ ParseContext(i)
        \/ InitClient(i)
        \/ GetOperation(i)
        \/ PerformOperation(i)
        \/ MakeRequestSend(i)
        \/ MakeRequestReceive(i)
        \/ BatchStart(i)
        \/ \E k \in 1..MaxBatch : ItemSend(i, k)
        \/ \E k \in 1..MaxBatch : ItemReceive(i, k)
        \/ BatchJoin(i)
        \/ TestStart(i)
        \/ TestReceive(i)
        \/ ValidateWebhook(i)
        \/ HealthStart(i)
        \/ HealthConnectivity(i)
        \/ HealthSsl(i)
        \/ HealthSecurityHeaders(i)
        \/ Succeed(i)
        \/ Except(i)
        \/ Finally(i)
        \/ Returned(i)
        \/ Collect(i)

Spec == Init /\ [][Next]_vars

---------------------------------------------------------------------------
(* Two calls of execute_async on one plugin instance, as tasks of one event
   loop: a call may begin whenever the loop is free, also while the other
   invocation is suspended in a transport call or in aclose().  Each of the
   two is called once. *)

\* The contexts of the two calls: between them, one per handler.
OverlapContexts(i) ==
    { [inputData |-> Some(d)] :
          d \in IF i = "inv1"
                THEN { [operation |-> "request", method |-> "post",
                        headers |-> ("Accept" :> <<"*/*">>), url |-> Some(PlainUrl)],
                       [operation |-> "test_endpoint", url |-> Some(PlainUrl)],
                       [operation |-> "health_check", url |-> Some(SecureUrl)] }
                ELSE { [operation |-> "request", method |-> "post",
                        headers |-> ("Accept" :> <<"*/*">>), url |-> Some(PlainUrl)],
                       [operation |-> "batch_requests",
                        endpoints |-> << [method |-> "get", url |-> Some(PlainUrl)] >>],
                       [operation |-> "webhook_validate", webhook |-> Some(EmptyDict)] } }

OverlapParseContext(i) == ParseContext(i) /\ context'[i] \in OverlapContexts(i)

OverlapNext ==
    \E i \in Invocations :
        \/ Enter(i)
        \/ OverlapParseContext(i)
        \/ InitClient(i)
        \/ GetOperation(i)
        \/ PerformOperation(i)
        \/ MakeRequestSend(i)
        \/ MakeRequestReceive(i)
        \/ BatchStart(i)
        \/ \E k \in 1..MaxBatch : ItemSend(i, k)
        \/ \E k \in 1..MaxBatch : ItemReceive(i, k)
        \/ BatchJoin(i)
        \/ TestStart(i)
        \/ TestReceive(i)
        \/ ValidateWebhook(i)
        \/ HealthStart(i)
        \/ HealthConnectivity(i)
        \/ HealthSsl(i)
        \/ HealthSecurityHeaders(i)
        \/ Succeed(i)
        \/ Except(i)
        \/ Finally(i)
        \/ Returned(i)

OverlapSpec == Init /\ [][OverlapNext]_vars

---------------------------------------------------------------------------
(* _parse_response on its own: one call of it on each kind of response *)

DeclaredContentTypes ==
    { "application/json", "Application/JSON", "application/json; charset=utf-8",
      "text/plain", "TEXT/HTML", "application/xml", "image/png",
      "application/octet-stream" }

ClassifierResponses ==
    { Response(status, headers, content, 120) :
          status \in {200, 204, 302, 399, 400, 404, 500},
          headers \in {EmptyDict} \cup {ContentType(ct) : ct \in DeclaredContentTypes},
          content \in {<<>>, BodyEmptyObject, BodyBrokenJson, BodyText, BodyBytes} }

\* Invocation `running` is in _make_request, its response received and validated.
ClassifierInit ==
    /\ running \in Invocations
    /\ pc = [i \in Invocations |-> IF i = running THEN "parse_response" ELSE "idle"]
    /\ context = [i \in Invocations |-> EmptyDict]
    /\ operation = [i \in Invocations |-> EmptyDict]
    /\ error = [i \in Invocations |-> NoError]
    /\ result = [i \in Invocations |-> EmptyDict]
    /\ call \in { [i \in Invocations |->
                      IF i = running
                      THEN [kwargs |-> [method |-> "GET", url |-> PlainUrl],
                            client |-> i,
                            issued_on |-> "open",
                            response |-> r]
                      ELSE NoCall] : r \in ClassifierResponses }
    /\ items = [i \in Invocations |-> <<>>]
    /\ envelope = [i \in Invocations |-> NoEnvelope]
    /\ self_logs = <<>>
    /\ self_config = DefaultConfig
    /\ self_working_directory = "/tmp"
    /\ self_client = running
    /\ clients = [i \in Invocations |-> IF i = running THEN "open" ELSE "none"]
    /\ issued = [i \in Invocations |-> IF i = running THEN 1 ELSE 0]
    /\ late = FALSE

\* `result = await self._parse_response(response)`
ParseResponse(i) ==
    /\ At(i, "parse_response")
    /\ result' = [result EXCEPT ![i] = parse_response(call[i].response, call[i].kwargs.url)]
    /\ Goto(i, "parsed")
    /\ UNCHANGED << running, context, operation, error, call, items, envelope, self_logs,
                    self_config, self_working_directory, self_client, clients, issued, late >>

ClassifierNext == \E i \in Invocations : ParseResponse(i)

ClassifierSpec == ClassifierInit /\ [][ClassifierNext]_vars

---------------------------------------------------------------------------
(* Properties *)

Finished(i) == pc[i] \in {"returned", "raised"}
OfType(i, type) == "type" \in DOMAIN operation[i] /\ operation[i].type = type

\* C1: execute_async always returns an envelope, never an error: an invocation
\* in which context parsing, client construction, operation extraction or the
\* handler raised returns success = false with the error's text in the message.
C1_NoErrorEscapes ==
    \A i \in Invocations :
        /\ pc[i] # "raised"
        /\ pc[i] = "returned" =>
               /\ "success" \in DOMAIN envelope[i]
               /\ error[i].exc # "" =>
                      /\ envelope[i].success = FALSE
                      /\ envelope[i].message.error_message = error[i].text

\* C1 witness: an invocation whose handler's request failed in the transport
\* has returned a failed envelope.
C1_Witness ==
    \E i \in Invocations :
        /\ pc[i] = "returned"
        /\ error[i].exc = "ConnectError"
        /\ envelope[i].success = FALSE

\* C2: when execute_async ends, the client the invocation constructed is
\* closed, whatever the path, and no transport call was issued on a closed client.
C2_ClientClosedOnReturn ==
    /\ ~late
    /\ \A i \in Invocations : Finished(i) => clients[i] \in {"none", "closed"}

\* C2 witness: an invocation that issued a call and then failed has returned
\* with its client closed.
C2_Witness ==
    \E i \in Invocations :
        /\ pc[i] = "returned"
        /\ envelope[i].success = FALSE
        /\ issued[i] > 0
        /\ self_client = i
        /\ clients[i] = "closed"

EnvelopeFields == {"success", "message", "data", "executionTimeMs", "timestamp", "logs"}

\* C3: every envelope, of a failed invocation as of a successful one, has the
\* same fields: success, message, data, executionTimeMs, timestamp, logs.
C3_SameEnvelopeShape ==
    \A i \in Invocations : pc[i] = "returned" => DOMAIN envelope[i] = EnvelopeFields

\* The url an operation or endpoint dict gives is absent, None or empty.
NoUrl(op) == ~TruthyStr(GetD(op, "url", None))

\* C4: an operation that issues network traffic (request, test_endpoint,
\* health_check, each batch item) and has no url or an empty one fails with an
\* input error, and no transport call is issued for it.
C4_MissingUrlFailsBeforeIO ==
    \A i \in Invocations :
        /\ ( /\ pc[i] = "returned"
             /\ \E t \in {"request", "test_endpoint", "health_check"} : OfType(i, t)
             /\ NoUrl(operation[i]) )
           => (envelope[i].success = FALSE /\ issued[i] = 0)
        /\ \A k \in DOMAIN items[i] :
               (items[i][k].pc = "done" /\ NoUrl(operation[i].endpoints[k]))
               => ( /\ "error" \in DOMAIN items[i][k].out.value[1]
                    /\ items[i][k].call = NoCall )

\* A dict carries a response's status, headers and body.
Carries(d, response) ==
    /\ {"status", "headers", "data"} \subseteq DOMAIN d
    /\ d.status = response.status
    /\ d.headers = response.headers

\* The request of dict `op` got `response`, which its status validation rejects.
Rejected(op, response) ==
    /\ response # NoResponse
    /\ GetD(op, "validateResponse", TRUE)
    /\ ~InSeq(response.status, GetD(op, "expectedStatus", <<200>>))

UnexpectedStatus(op, response) ==
    Text("Unexpected status code", response.status, GetD(op, "expectedStatus", <<200>>), "")

\* C5: a response whose status is not expected (validate-response true) makes the
\* request fail with an error naming the status and the expected set, and the
\* failure the caller sees (the envelope, the batch failure record) still
\* carries the response's status, headers and body.
C5_RejectedResponseIsKept ==
    \A i \in Invocations :
        /\ ( /\ pc[i] = "returned"
             /\ OfType(i, "request")
             /\ Rejected(operation[i], call[i].response) )
           => ( /\ envelope[i].success = FALSE
                /\ envelope[i].message.error_message
                       = UnexpectedStatus(operation[i], call[i].response)
                /\ \/ Carries(envelope[i], call[i].response)
                   \/ ( /\ "data" \in DOMAIN envelope[i]
                        /\ Carries(envelope[i].data, call[i].response) ) )
        /\ \A k \in DOMAIN items[i] :
               ( /\ items[i][k].pc = "done"
                 /\ Rejected(operation[i].endpoints[k], items[i][k].call.response) )
               => ( /\ items[i][k].out.value[1].success = FALSE
                    /\ Carries(items[i][k].out.value[1], items[i][k].call.response) )

\* An auth descriptor names a supported variant and gives its required fields.
WellFormed(descriptor) ==
    /\ "type" \in DOMAIN descriptor
    /\ CASE descriptor.type = "basic" ->
                TruthyStr(Get(descriptor, "username")) /\ TruthyStr(Get(descriptor, "password"))
         [] descriptor.type = "bearer" -> TruthyStr(Get(descriptor, "token"))
         [] descriptor.type = "api_key" -> TruthyStr(Get(descriptor, "key"))
         [] OTHER -> FALSE

Supplied(op) == GetD(op, "auth", None) # None

\* C6: a supplied auth descriptor (one with no fields or no type tag included)
\* whose tag is not basic, bearer or api_key, or that lacks a required field,
\* makes the request fail with a configuration error before any transport call:
\* it is never ignored.
C6_BadDescriptorNeverIgnored ==
    \A i \in Invocations :
        ( /\ OfType(i, "request")
          /\ pc[i] \in {"request_sent", "succeed", "except", "finally", "closing", "returned"}
          /\ Supplied(operation[i])
          /\ ~WellFormed(operation[i].auth[1]) )
        => ( /\ issued[i] = 0
             /\ pc[i] = "returned" => envelope[i].success = FALSE )

\* C7: the request issued for a bearer descriptor carries Authorization: Bearer T
\* among its headers, the one for an api_key descriptor carries the key under the
\* configured header name (default X-API-Key), and only the basic variant
\* occupies the credential slot (auth) of the request.
C7_CredentialsInHeaders ==
    \A i \in Invocations :
        ( /\ OfType(i, "request")
          /\ pc[i] = "request_sent"
          /\ Supplied(operation[i])
          /\ WellFormed(operation[i].auth[1]) )
        => LET descriptor == operation[i].auth[1]
               headers == call[i].kwargs.headers
               name == GetD(descriptor, "header", "X-API-Key")
           IN  /\ descriptor.type = "bearer" =>
                      /\ "Authorization" \in DOMAIN headers
                      /\ headers["Authorization"] = <<"Bearer", descriptor.token>>
               /\ descriptor.type = "api_key" =>
                      /\ name \in DOMAIN headers
                      /\ headers[name] = <<descriptor.key>>
               /\ "auth" \in DOMAIN call[i].kwargs => descriptor.type = "basic"

\* The batch handler of invocation i has returned its Batch Result.
BatchReturned(i) ==
    OfType(i, "batch_requests") /\ pc[i] \in {"succeed", "finally", "closing", "returned"}

\* Task k of a batch ended in an error of its own _make_request: no call was
\* issued (missing URL, auth error), the call failed, or the status was rejected.
ItemFailed(endpoint, item) ==
    \/ item.call.kwargs = EmptyDict
    \/ item.call.response = NoResponse
    \/ Rejected(endpoint, item.call.response)

\* What the endpoint at position k must have produced, from its own dict and
\* its own response alone.
IsOutcomeOf(r, endpoint, item) ==
    IF ItemFailed(endpoint, item)
    THEN /\ DOMAIN r = {"url", "error", "success"}
         /\ r.url = GetD(endpoint, "url", None)
         /\ r.success = FALSE
    ELSE /\ "error" \notin DOMAIN r
         /\ r.url = endpoint.url[1]
         /\ r.status = item.call.response.status
         /\ r.success = (item.call.response.status < 400)

\* C8: the Batch Result of N endpoints has totalRequests = N and N results, the
\* k-th being the outcome of the k-th endpoint whatever the order of completion;
\* successful counts the results whose success is true and failed is the rest.
C8_BatchCounts ==
    \A i \in Invocations :
        BatchReturned(i) =>
            LET endpoints == operation[i].endpoints
                batch == result[i]
                N == Len(endpoints)
            IN  /\ batch.totalRequests = N
                /\ Len(batch.results) = N
                /\ \A k \in 1..N : IsOutcomeOf(batch.results[k], endpoints[k], items[i][k])
                /\ batch.successful =
                       Cardinality({k \in 1..N : batch.results[k].success = TRUE})
                /\ batch.failed = N - batch.successful

\* C8 witness: a batch of two whose second endpoint completed first and failed,
\* while the first succeeded.
C8_Witness ==
    \E i \in Invocations :
        /\ BatchReturned(i)
        /\ Len(result[i].results) = 2
        /\ result[i].successful = 1
        /\ result[i].failed = 1
        /\ result[i].results[1].success = TRUE
        /\ "error" \in DOMAIN result[i].results[2]
        /\ result[i].results[2].error.status = 404
        /\ \E a, b \in DOMAIN self_logs :
               /\ a < b
               /\ self_logs[a].template = "Request completed - Status"
               /\ self_logs[a].args.status = 404
               /\ self_logs[b].template = "Request completed - Status"
               /\ self_logs[b].args.status = 200

\* C9: an error raised by one item of a batch becomes the failure record
\* {url, error, success = false} at the item's position: the batch operation
\* never fails because of it, and every sibling still runs to its own end with
\* the outcome its own response gives, in every interleaving.
C9_ItemFailureIsolated ==
    \A i \in Invocations :
        OfType(i, "batch_requests") =>
            /\ pc[i] # "except"
            /\ error[i] = NoError
            /\ pc[i] \in {"succeed", "finally", "closing", "returned", "raised"} =>
                   \A k \in DOMAIN items[i] : items[i][k].pc = "done"
            /\ \A k \in DOMAIN items[i] :
                   items[i][k].pc = "done" =>
                       /\ ~items[i][k].out.raised
                       /\ IsOutcomeOf(items[i][k].out.value[1], operation[i].endpoints[k],
                                      items[i][k])

\* C9 witness: in a batch of two, the first item has failed before its call
\* while the second is still in flight; and the batch later returns.
C9_Witness ==
    \E i \in Invocations :
        /\ OfType(i, "batch_requests")
        /\ pc[i] = "gather"
        /\ Len(items[i]) = 2
        /\ items[i][1].pc = "done"
        /\ "error" \in DOMAIN items[i][1].out.value[1]
        /\ items[i][2].pc = "sent"

\* C10: the Diagnostic Report's overall verdict is failed if and only if one of
\* its checks has status failed.
C10_OverallFailedIffCheckFailed ==
    \A i \in Invocations :
        (OfType(i, "test_endpoint") /\ pc[i] \in {"succeed", "finally", "closing", "returned"})
        => ( result[i].overall = "failed"
             <=> \E k \in DOMAIN result[i].tests : result[i].tests[k].status = "failed" )

\* The health handler of invocation i has returned its Health Report.
HealthReturned(i) ==
    /\ OfType(i, "health_check")
    /\ pc[i] \in {"succeed", "finally", "closing", "returned"}
    /\ error[i] = NoError

HealthyCount(report) ==
    Cardinality({c \in DOMAIN report.checks : report.checks[c].status = "healthy"})

\* C11: the overall verdict of a Health Report is the strict majority rule over
\* the checks recorded, 3 for an https URL and 2 otherwise: all healthy gives
\* healthy, more than half but not all gives degraded, anything else (a tie
\* included) gives unhealthy.
C11_StrictMajority ==
    \A i \in Invocations :
        HealthReturned(i) =>
            LET report == result[i]
                total == Cardinality(DOMAIN report.checks)
                healthy == HealthyCount(report)
            IN  /\ total = IF StartsWithHttps(report.url[1]) THEN 3 ELSE 2
                /\ report.overall =
                       CASE total = 3 /\ healthy = 3 -> "healthy"
                         [] total = 3 /\ healthy = 2 -> "degraded"
                         [] total = 3 /\ healthy < 2 -> "unhealthy"
                         [] total = 2 /\ healthy = 2 -> "healthy"
                         [] total = 2 /\ healthy < 2 -> "unhealthy"
                         [] OTHER -> "no verdict"

\* C11 witness: a report of two checks, exactly one of them healthy.
C11_Witness ==
    \E i \in Invocations :
        /\ HealthReturned(i)
        /\ Cardinality(DOMAIN result[i].checks) = 2
        /\ HealthyCount(result[i]) = 1
        /\ result[i].overall = "unhealthy"

\* C12: every check of a Health Report has status healthy, unhealthy or degraded.
C12_CheckStatuses ==
    \A i \in Invocations :
        HealthReturned(i) =>
            \A c \in DOMAIN result[i].checks :
                result[i].checks[c].status \in {"healthy", "unhealthy", "degraded"}

\* The request handler of invocation i has returned its Execution Result.
RequestReturned(i) ==
    /\ OfType(i, "request")
    /\ pc[i] \in {"succeed", "finally", "closing", "returned"}
    /\ error[i] = NoError

\* C13: one execution of the Request Executor issues at most one transport
\* call, whatever maxRetries, retryDelay and retries are and however the call
\* ends; a status-validation failure comes after the response was received,
\* issues no further call and leaves the response unclassified; every Execution
\* Result has attempt = 1.
C13_SingleAttempt ==
    \A i \in Invocations :
        /\ OfType(i, "request") =>
               /\ issued[i] <= 1
               /\ (error[i].exc = "ValueError" /\ error[i].text.msg = "Unexpected status code") =>
                      /\ issued[i] = 1
                      /\ call[i].response # NoResponse
                      /\ call[i].response.status = error[i].text.status
                      /\ result[i] = EmptyDict
               /\ RequestReturned(i) => issued[i] = 1 /\ result[i].attempt = 1
        /\ OfType(i, "batch_requests") =>
               /\ issued[i] = Cardinality({k \in DOMAIN items[i] : items[i][k].call # NoCall})
               /\ \A k \in DOMAIN items[i] :
                      LET item == items[i][k]
                      IN  (item.pc = "done" /\ ~item.out.raised) =>
                              IF "error" \in DOMAIN item.out.value[1]
                              THEN "contentType" \notin DOMAIN item.out.value[1]
                              ELSE item.out.value[1].attempt = 1

\* C13 witness: with maxRetries 5 and retries 3 configured, the one call of a
\* request has failed in the transport and the invocation is over.
C13_Witness ==
    \E i \in Invocations :
        /\ OfType(i, "request")
        /\ GetD(operation[i], "retries", None) = Some(3)
        /\ self_config.maxRetries = 5
        /\ pc[i] = "returned"
        /\ error[i].exc = "ConnectError"
        /\ issued[i] = 1

\* The declared content types that contain application/json, and those that
\* contain text/ or application/xml, whatever their letter case.
JsonTypes == {"application/json", "Application/JSON", "application/json; charset=utf-8"}
TextTypes == {"text/plain", "TEXT/HTML", "application/xml"}

\* invocation i has classified its response.
Parsed(i) == pc[i] = "parsed"

\* C14: the classifier decides by the declared content type, case-insensitively
\* and in priority order: application/json gives the parsed body with tag json,
\* or, when the body does not parse, tag error with the parse failure message as
\* data and no exception; text/* or application/xml gives the raw text with tag
\* text; anything else gives the base64 of the bytes with tag binary and their
\* length. Status, headers, URL and success = (status < 400) are always there.
C14_Classification ==
    \A i \in Invocations :
        Parsed(i) =>
            LET response == call[i].response
                declared == GetD(response.headers, "content-type", "none")
                r == result[i]
            IN  /\ r.status = response.status
                /\ r.headers = response.headers
                /\ r.url = call[i].kwargs.url
                /\ r.success = (response.status < 400)
                /\ error[i] = NoError
                /\ IF declared \in JsonTypes
                   THEN IF response.content = BodyEmptyObject
                        THEN r.contentType = "json" /\ r.data = [json |-> EmptyDict]
                        ELSE /\ r.contentType = "error"
                             /\ DOMAIN r.data = {"error"}
                             /\ r.data.error.tag = json_loads(response.content).error.text.msg
                   ELSE IF declared \in TextTypes
                   THEN r.contentType = "text" /\ r.data = [text |-> response.content]
                   ELSE /\ r.contentType = "binary"
                        /\ DOMAIN r.data = {"base64"}
                        /\ response.content = BodyText => r.data.base64 = <<26, 6, 36, 64>>
                        /\ response.content = <<>> => r.data.base64 = <<>>
                        /\ Len(r.data.base64) = 4 * ((Len(response.content) + 2) \div 3)
                        /\ r.size = Len(response.content)
                /\ (r.contentType = "binary") <=> ("size" \in DOMAIN r)

\* C14 witness: a response declared as Application/JSON whose body is not JSON
\* has been classified, with tag error.
C14_Witness ==
    \E i \in Invocations :
        /\ Parsed(i)
        /\ GetD(call[i].response.headers, "content-type", "none") = "Application/JSON"
        /\ call[i].response.content = BodyBrokenJson
        /\ result[i].contentType = "error"

\* The webhook handler of invocation i has run, on the descriptor w.
WebhookDone(i) ==
    /\ OfType(i, "webhook_validate")
    /\ operation[i].webhook # None
    /\ pc[i] \in {"succeed", "except", "finally", "closing", "returned"}

MissingWebhookField ==
    Error("ValueError", Msg("Payload, signature, and secret are required for webhook validation"))

\* C15: a webhook descriptor without payload, signature or secret always fails
\* with the missing-field error, before any digest is looked up, computed or
\* compared; no verification result is produced.
C15_MissingFieldFails ==
    \A i \in Invocations :
        (WebhookDone(i) /\ {"payload", "signature", "secret"} \ DOMAIN operation[i].webhook[1] # {})
        => /\ error[i] = MissingWebhookField
           /\ result[i] = EmptyDict
           /\ \A k \in DOMAIN self_logs :
                  self_logs[k].template \notin {"Webhook signature validation passed",
                                                "Webhook signature validation failed"}
           /\ envelope[i] # NoEnvelope => envelope[i].success = FALSE

\* C15 witness: a descriptor with payload and secret, an algorithm hashlib does
\* not have, and no signature has been refused and the envelope returned.
C15_Witness ==
    \E i \in Invocations :
        /\ WebhookDone(i)
        /\ DOMAIN operation[i].webhook[1] = {"payload", "secret", "algorithm"}
        /\ operation[i].webhook[1].algorithm = "whirlpool"
        /\ pc[i] = "returned"
        /\ envelope[i].success = FALSE

\* The descriptor of invocation i has a non-empty payload, signature and
\* secret and names a digest hashlib has.
Verifiable(w) ==
    /\ {"payload", "signature", "secret"} \subseteq DOMAIN w
    /\ TruthyPayload(Some(w.payload)) /\ w.signature # <<>> /\ w.secret # <<>>
    /\ GetD(w, "algorithm", "sha256") \in HashlibAlgorithms

\* C16: with payload, signature and secret present and a supported algorithm,
\* verification never fails: it returns a result whose valid is true exactly
\* when the provided signature equals the recomputed digest, with both
\* signatures in it, and the envelope has success = true also when they differ.
C16_MismatchIsAResult ==
    \A i \in Invocations :
        (WebhookDone(i) /\ Verifiable(operation[i].webhook[1])) =>
            LET w == operation[i].webhook[1]
                digest == hmac_hexdigest(w.secret, payload_bytes(w.payload),
                                         GetD(w, "algorithm", "sha256"))
            IN  /\ error[i] = NoError
                /\ result[i].valid = (w.signature = digest)
                /\ result[i].providedSignature = w.signature
                /\ result[i].expectedSignature = digest
                /\ envelope[i] # NoEnvelope => envelope[i].success = TRUE

OperationTypes ==
    {"request", "batch_requests", "test_endpoint", "webhook_validate", "health_check"}

\* The operation extracted by invocation i has a type tag that is none of the five.
Unsupported(i) ==
    "type" \in DOMAIN operation[i] /\ operation[i].type \notin OperationTypes

\* C17: an operation with an unsupported type tag ends in a failed envelope
\* whose message carries the tag; no handler is entered and no transport call
\* is issued in that invocation.
C17_UnsupportedTypeFails ==
    \A i \in Invocations :
        Unsupported(i) =>
            /\ pc[i] \in {"perform_operation", "except", "finally", "closing", "returned"}
            /\ issued[i] = 0
            /\ call[i] = NoCall /\ items[i] = <<>> /\ result[i] = EmptyDict
            /\ pc[i] # "perform_operation" =>
                   error[i] = Error("ValueError",
                                    Text("Unsupported operation", 0, <<>>, operation[i].type))
            /\ envelope[i] # NoEnvelope =>
                   /\ envelope[i].success = FALSE
                   /\ envelope[i].message.error_message.tag = operation[i].type

\* C17 witness: the invocation for "delete_everything" has returned its envelope.
C17_Witness ==
    \E i \in Invocations :
        /\ Unsupported(i)
        /\ operation[i].type = "delete_everything"
        /\ pc[i] = "returned"
        /\ envelope[i].success = FALSE
        /\ clients[i] = "closed"

\* context.get('inputData', context) of invocation i, and: it has extracted
\* its operation from an inputData without `operation`.
InputData(i) == GetD(context[i], "inputData", Some(context[i]))
Defaulted(i) ==
    /\ operation[i] # EmptyDict
    /\ "operation" \notin DOMAIN InputData(i)[1]

\* C18 as stated: when inputData.operation is absent the operation is a bare
\* GET request against the fixed placeholder URL, whatever else inputData holds.
C18_DefaultIsPlaceholder ==
    \A i \in Invocations :
        Defaulted(i) =>
            operation[i] = [type |-> "request", method |-> "GET", url |-> Some(PlaceholderUrl)]

\* C18 amended: when inputData.operation is absent the operation is a bare GET
\* request (type request, method GET, nothing else taken from inputData) against
\* inputData.url when inputData has a url entry, and against the fixed
\* placeholder URL otherwise.
C18_DefaultIsBareGet ==
    \A i \in Invocations :
        Defaulted(i) =>
            operation[i] = [type |-> "request", method |-> "GET",
                            url |-> IF "url" \in DOMAIN InputData(i)[1]
                                    THEN InputData(i)[1].url
                                    ELSE Some(PlaceholderUrl)]

\* C18 witness: inputData holds method, headers and auth but neither operation
\* nor url, and the request went to the placeholder URL without them.
C18_Witness ==
    \E i \in Invocations :
        /\ Defaulted(i)
        /\ DOMAIN InputData(i)[1] = {"method", "headers", "auth"}
        /\ pc[i] = "request_sent"
        /\ call[i].kwargs.method = "GET"
        /\ call[i].kwargs.url = PlaceholderUrl
        /\ "auth" \notin DOMAIN call[i].kwargs

\* The transport calls invocation i has issued: the one of its handler and
\* those of its batch items.
CallsOf(i) ==
    (IF call[i] = NoCall THEN {} ELSE {call[i]})
        \cup {items[i][k].call : k \in {n \in DOMAIN items[i] : items[i][n].call # NoCall}}

\* The calls of invocation i that are in flight.
InFlight(i) ==
    (IF pc[i] \in {"request_sent", "test_sent", "health_sent"} THEN {call[i]} ELSE {})
        \cup {items[i][k].call : k \in {n \in DOMAIN items[i] : items[i][n].pc = "sent"}}

\* C20: invocations on one instance are isolated, in sequence and when they
\* overlap at suspension points: every transport call of an invocation is
\* issued on a client that this invocation constructed and that is open, no
\* client is closed while a call of another invocation is in flight on it, and
\* the logs of an invocation's envelope are the lines this invocation logged,
\* from its first line on.
C20_InvocationsIsolated ==
    \A i \in Invocations :
        /\ \A c \in CallsOf(i) : c.client = i /\ c.issued_on = "open"
        /\ \A c \in InFlight(i) : clients[c.client] = "open"
        /\ envelope[i] # NoEnvelope =>
               /\ \A k \in DOMAIN envelope[i].logs : envelope[i].logs[k].by = i
               /\ envelope[i].logs[1].template = "ApiIntegration plugin execution started"

\* The handler of invocation i is over: it returned or it raised.
HandlerOver(i) == pc[i] \in {"succeed", "except", "finally", "closing", "returned"}

\* The checks a Health Report on `url` has to hold.
ApplicableChecks(url) ==
    {"connectivity", "security_headers"}
        \cup (IF url # None /\ StartsWithHttps(url[1]) THEN {"ssl"} ELSE {})

\* C21: within one invocation more than one transport call is in flight only in
\* batch_requests: all N item executions exist when the coordinator suspends
\* and the batch result comes only after all N are done.  test_endpoint and
\* health_check issue their requests one after another, each only after the
\* check before it was recorded (passed or raised), and they always record
\* every applicable check.
C21_ConcurrencyShape ==
    \A i \in Invocations :
        /\ ~OfType(i, "batch_requests") => Cardinality(InFlight(i)) <= 1
        /\ OfType(i, "batch_requests") =>
               /\ pc[i] = "gather" => Len(items[i]) = Len(operation[i].endpoints)
               /\ BatchReturned(i) =>
                      /\ Len(result[i].results) = Len(operation[i].endpoints)
                      /\ \A k \in DOMAIN items[i] : items[i][k].pc = "done"
        /\ OfType(i, "test_endpoint") =>
               /\ pc[i] = "test_sent" => issued[i] = Len(result[i].tests) + 1
               /\ HandlerOver(i) => Len(result[i].tests) = 3 /\ issued[i] = 3
        /\ OfType(i, "health_check") =>
               /\ pc[i] = "health_sent" =>
                      issued[i] = Cardinality(DOMAIN result[i].checks) + 1
               /\ HandlerOver(i) =>
                      DOMAIN result[i].checks = ApplicableChecks(operation[i].url)

\* The data of invocation i's handler carries a negative verdict.
NegativeVerdict(i) ==
    \/ OfType(i, "request") /\ result[i].success = FALSE
    \/ OfType(i, "batch_requests") /\ result[i].totalRequests > 0 /\ result[i].successful = 0
    \/ OfType(i, "test_endpoint") /\ result[i].overall = "failed"
    \/ OfType(i, "health_check") /\ result[i].overall = "unhealthy"
    \/ OfType(i, "webhook_validate") /\ result[i].valid = FALSE

\* C22: the envelope's success flag is true exactly when no error came out of
\* the handler, whatever verdict the data holds: a result with status >= 400
\* that was not validated, a batch whose items all failed, a failed Diagnostic
\* Report, an unhealthy Health Report and a webhook result with valid = false
\* are all returned with success = true.
C22_SuccessIsNoError ==
    \A i \in Invocations :
        envelope[i] # NoEnvelope =>
            /\ envelope[i].success = (error[i] = NoError)
            /\ envelope[i].success => envelope[i].data = result[i]
            /\ (error[i] = NoError /\ NegativeVerdict(i)) => envelope[i].success = TRUE

\* C22 witness: a request with validate-response false got 404; its result has
\* success = false and its envelope, returned, has success = true.
C22_Witness ==
    \E i \in Invocations :
        /\ OfType(i, "request")
        /\ pc[i] = "returned"
        /\ GetD(operation[i], "validateResponse", TRUE) = FALSE
        /\ result[i] # EmptyDict
        /\ result[i].status = 404
        /\ result[i].success = FALSE
        /\ envelope[i].success = TRUE

====
